---- MODULE Spec2Model ----
(***************************************************************************)
(* Model of MEDC17EmissionHandler (src/emmission.py): the options mapping  *)
(* built by the constructor and by the command-line entry point, the       *)
(* pattern table, and apply_modifications on a byte buffer.                *)
(*                                                                         *)
(* Bytes are integers 0..255.  Python strings (pattern names, option keys, *)
(* typed answers, hex(i)) are sequences of character codes, so that        *)
(* str.lower, str.strip and hex are computed, not assumed.                 *)
(***************************************************************************)
EXTENDS Integers, Sequences, FiniteSets, TLC

VARIABLES pc, arg, options, file, data, reports

vars == <<pc, arg, options, file, data, reports>>

(* ------------------------------ bounds --------------------------------- *)

\* number of fields / filler bytes the input image is assembled from
MaxChunks == 2
\* number of entries in an options mapping passed by a caller
MaxEntries == 1
\* number of successive apply_modifications calls on the same buffer
MaxCalls == 2

(* --------------------------- Python helpers ---------------------------- *)

Min(a, b) == IF a < b THEN a ELSE b

\* s[a:b] for 0 <= a, 0 <= b: indices are clamped to len(s), never an error
Slice(s, a, b) ==
    LET lo == Min(a, Len(s))
        hi == Min(b, Len(s))
    IN  IF hi <= lo THEN <<>> ELSE SubSeq(s, lo + 1, hi)

\* plausible slip: data[a:] = v (the end of the slice forgotten)
SliceAssignToEnd(s, a, b, v) == Slice(s, 0, a) \o v

\* s[a:b] = v on a bytearray: the clamped slice is replaced by v
SliceAssign(s, a, b, v) ==
    LET lo == Min(a, Len(s))
        hi == Min(b, Len(s))
    IN  Slice(s, 0, lo) \o v \o Slice(s, IF hi < lo THEN lo ELSE hi, Len(s))

\* plausible slip: the name is looked up as written
LowerAsIs(s) == s

\* str.lower on ASCII text
Lower(s) == [k \in DOMAIN s |-> IF s[k] >= 65 /\ s[k] <= 90 THEN s[k] + 32 ELSE s[k]]

RECURSIVE LStrip(_)
LStrip(s) == IF s # <<>> /\ Head(s) = 32 THEN LStrip(Tail(s)) ELSE s

RECURSIVE RStrip(_)
RStrip(s) == IF s # <<>> /\ s[Len(s)] = 32 THEN RStrip(SubSeq(s, 1, Len(s) - 1)) ELSE s

\* str.strip (blanks)
Strip(s) == RStrip(LStrip(s))

HexDigit(d) == IF d < 10 THEN 48 + d ELSE 87 + d

RECURSIVE HexDigits(_)
HexDigits(n) == IF n < 16 THEN <<HexDigit(n)>>
                ELSE HexDigits(n \div 16) \o <<HexDigit(n % 16)>>

\* hex(i) for i >= 0: "0x" followed by lower-case digits
Hex(n) == <<48, 120>> \o HexDigits(n)

\* dict.get(key, default)
Get(d, key, default) == IF key \in DOMAIN d THEN d[key] ELSE default

(* ------------------------------ names ---------------------------------- *)

DPF == <<68, 80, 70>>
EGR == <<69, 71, 82>>
SCR == <<83, 67, 82>>
StartStop == <<83, 116, 97, 114, 116, 83, 116, 111, 112>>

k_dpf == <<100, 112, 102>>
k_egr == <<101, 103, 114>>
k_scr == <<115, 99, 114>>
k_start_stop == <<115, 116, 97, 114, 116, 95, 115, 116, 111, 112>>
k_startstop == <<115, 116, 97, 114, 116, 115, 116, 111, 112>>

(* --------------------------- pattern table ----------------------------- *)

\* plausible slip: the SCR entry pasted from DPF with its signature unchanged
patternsPasted ==
    [n \in {DPF, EGR, SCR, StartStop} |->
       IF n = DPF THEN [signature |-> <<68, 80, 70, 95>>,
                        stock |-> <<1, 1, 1, 0, 0>>, off |-> <<0, 0, 0, 255, 255>>]
       ELSE IF n = EGR THEN [signature |-> <<69, 71, 82, 86>>,
                        stock |-> <<1, 1, 1, 0>>, off |-> <<0, 0, 0, 255>>]
       ELSE IF n = SCR THEN [signature |-> <<68, 80, 70, 95>>,
                        stock |-> <<1, 1, 1, 0, 0>>, off |-> <<0, 0, 0, 255, 255>>]
       ELSE [signature |-> <<83, 84, 65, 82, 84>>,
                        stock |-> <<1, 1, 0>>, off |-> <<0, 0, 255>>]]

patterns ==
    [n \in {DPF, EGR, SCR, StartStop} |->
       IF n = DPF THEN [signature |-> <<68, 80, 70, 95>>,
                        stock |-> <<1, 1, 1, 0, 0>>, off |-> <<0, 0, 0, 255, 255>>]
       ELSE IF n = EGR THEN [signature |-> <<69, 71, 82, 86>>,
                        stock |-> <<1, 1, 1, 0>>, off |-> <<0, 0, 0, 255>>]
       ELSE IF n = SCR THEN [signature |-> <<83, 67, 82, 95>>,
                        stock |-> <<1, 1, 1, 0, 0>>, off |-> <<0, 0, 0, 255, 255>>]
       ELSE [signature |-> <<83, 84, 65, 82, 84>>,
                        stock |-> <<1, 1, 0>>, off |-> <<0, 0, 255>>]]

\* plausible slip: the table iterated back to front
PatternOrderReversed == <<StartStop, SCR, EGR, DPF>>

\* iteration order of self.patterns.items() (insertion order)
PatternOrder == <<DPF, EGR, SCR, StartStop>>

(* ------------------------------ options -------------------------------- *)

DefaultOptions ==
    [k \in {k_dpf, k_egr, k_scr, k_start_stop} |-> TRUE]

\* self.options = options or {...}: None and the empty mapping are both falsy
InitOptions(a) ==
    IF a.given /\ DOMAIN a.map # {} THEN a.map ELSE DefaultOptions

\* input(...).strip().lower() == 'y'
Switch(answer) == Lower(Strip(answer)) = <<121>>

\* the options mapping built under __main__
MainOptions(a1, a2, a3, a4) ==
    [k \in {k_dpf, k_egr, k_scr, k_start_stop} |->
       IF k = k_dpf THEN Switch(a1)
       ELSE IF k = k_egr THEN Switch(a2)
       ELSE IF k = k_scr THEN Switch(a3)
       ELSE Switch(a4)]

(* ------------------------- apply_modifications ------------------------- *)

\* plausible slip: only the bytes that are present are compared
StockMatchesPrefix(d, p, i) ==
    LET stock_start == i + Len(p.signature)
        stock_end   == stock_start + Len(p.stock)
        got         == Slice(d, stock_start, stock_end)
    IN  got = SubSeq(p.stock, 1, Len(got))

\* the stock comparison at a signature found at i
StockMatches(d, p, i) ==
    LET stock_start == i + Len(p.signature)
        stock_end   == stock_start + Len(p.stock)
    IN  Slice(d, stock_start, stock_end) = p.stock

SignatureAt(d, p, i) == Slice(d, i, i + Len(p.signature)) = p.signature

\* plausible slip: the rule is given up at the first signature found
RECURSIVE ScanCommit(_, _, _, _)
ScanCommit(d, p, i, n) ==
    IF i >= n THEN -1
    ELSE IF SignatureAt(d, p, i)
         THEN (IF StockMatches(d, p, i) THEN i ELSE -1)
         ELSE ScanCommit(d, p, i + 1, n)

\* the inner loop from index i on: the offset at which it patches, or -1
RECURSIVE Scan(_, _, _, _)
Scan(d, p, i, n) ==
    IF i >= n THEN -1
    ELSE IF SignatureAt(d, p, i) /\ StockMatches(d, p, i) THEN i
    ELSE Scan(d, p, i + 1, n)

\* plausible slip: the replacement written at the signature
PatchAtSignature(d, p, i) ==
    SliceAssign(d, i, i + Len(p.stock), p.off)

\* plausible slip: the change is reported but the bytes are not written
PatchNothing(d, p, i) == d

\* data[stock_start:stock_end] = pattern['off']
Patch(d, p, i) ==
    LET stock_start == i + Len(p.signature)
        stock_end   == stock_start + Len(p.stock)
    IN  SliceAssign(d, stock_start, stock_end, p.off)

\* one iteration of the outer loop; st = [data, changes]
ApplyPattern(name, opts, st) ==
    LET p == patterns[name]
    IN  IF ~Get(opts, Lower(name), FALSE) THEN st
        ELSE LET i == Scan(st.data, p, 0, Len(st.data) - Len(p.signature))
             IN  IF i = -1 THEN st
                 ELSE [data    |-> Patch(st.data, p, i),
                       changes |-> Append(st.changes, <<name, Hex(i)>>)]

RECURSIVE ApplyOrder(_, _, _)
ApplyOrder(order, opts, st) ==
    IF order = <<>> THEN st
    ELSE ApplyOrder(Tail(order), opts, ApplyPattern(Head(order), opts, st))

\* apply_modifications(data): the mutated buffer and the returned list
apply_modifications(opts, d) ==
    ApplyOrder(PatternOrder, opts, [data |-> d, changes |-> <<>>])

(* ------------------------------ inputs --------------------------------- *)

Rules == {PatternOrder[k] : k \in DOMAIN PatternOrder}

\* a field of the image: a signature followed by its stock bytes, by bytes
\* that differ from stock in the first byte, or by stock cut short by a byte
Fields ==
    UNION {{patterns[r].signature \o patterns[r].stock,
            patterns[r].signature \o <<2>> \o Tail(patterns[r].stock),
            patterns[r].signature
               \o SubSeq(patterns[r].stock, 1, Len(patterns[r].stock) - 1)}
           : r \in Rules}

Chunks == Fields \cup {<<0>>, <<65>>}

RECURSIVE BuffersOf(_)
BuffersOf(k) ==
    IF k = 0 THEN {<<>>}
    ELSE LET prev == BuffersOf(k - 1)
         IN  prev \cup {b \o c : b \in prev, c \in Chunks}

Buffers == BuffersOf(MaxChunks)

UserKeys == {k_dpf, DPF, k_egr, k_scr, k_start_stop, k_startstop}

\* mappings a caller may pass: up to MaxEntries keys, each true or false
UserMaps ==
    UNION {[K -> BOOLEAN] : K \in {S \in SUBSET UserKeys : Cardinality(S) <= MaxEntries}}

\* what is typed at a y/n prompt
Answers == {<<121>>, <<89, 32>>, <<110>>, <<>>}

NoArg == [given |-> FALSE, origin |-> "default", map |-> <<>>]

\* a mapping that switches every rule on under the key the engine looks up
AllEnabled == [k \in {k_dpf, k_egr, k_scr, k_startstop} |-> TRUE]

(* --------------------------- state machine ----------------------------- *)

Init ==
    /\ pc = "start"
    /\ arg = NoArg
    /\ options = <<>>
    /\ file = <<>>
    /\ data = <<>>
    /\ reports = <<>>

\* MEDC17EmissionHandler() with no options argument
ConstructDefault ==
    /\ pc = "start"
    /\ pc' = "constructed"
    /\ arg' = NoArg
    /\ options' = InitOptions(NoArg)
    /\ UNCHANGED <<file, data, reports>>

\* MEDC17EmissionHandler(options = m) called by a library user
Construct ==
    /\ pc = "start"
    /\ \E m \in UserMaps :
         LET a == [given |-> TRUE, origin |-> "caller", map |-> m]
         IN  /\ arg' = a
             /\ options' = InitOptions(a)
    /\ pc' = "constructed"
    /\ UNCHANGED <<file, data, reports>>

\* the command-line entry point: four prompts, then the constructor
Main ==
    /\ pc = "start"
    /\ \E a1 \in Answers, a2 \in Answers, a3 \in Answers, a4 \in Answers :
         LET a == [given |-> TRUE, origin |-> "main",
                   map |-> MainOptions(a1, a2, a3, a4)]
         IN  /\ arg' = a
             /\ options' = InitOptions(a)
    /\ pc' = "constructed"
    /\ UNCHANGED <<file, data, reports>>

\* MEDC17EmissionHandler(options = AllEnabled)
ConstructEnabled ==
    /\ pc = "start"
    /\ LET a == [given |-> TRUE, origin |-> "caller", map |-> AllEnabled]
       IN  /\ arg' = a
           /\ options' = InitOptions(a)
    /\ pc' = "constructed"
    /\ UNCHANGED <<file, data, reports>>

\* read_binary of an image that holds at most one field
ReadField ==
    /\ pc = "constructed"
    /\ \E b \in Chunks \cup {<<>>} :
         /\ file' = b
         /\ data' = b
    /\ pc' = "read"
    /\ UNCHANGED <<arg, options, reports>>

\* read_binary: the whole file as a bytearray
ReadBinary ==
    /\ pc = "constructed"
    /\ \E b \in Buffers :
         /\ file' = b
         /\ data' = b
    /\ pc' = "read"
    /\ UNCHANGED <<arg, options, reports>>

\* one call of apply_modifications on the buffer
ApplyModifications ==
    /\ pc \in {"read", "applied"}
    /\ Len(reports) < MaxCalls
    /\ LET r == apply_modifications(options, data)
       IN  /\ data' = r.data
           /\ reports' = Append(reports, r.changes)
    /\ pc' = "applied"
    /\ UNCHANGED <<arg, options, file>>

\* option handling: every way of building the options, one-field images
Next ==
    \/ ConstructDefault
    \/ Construct
    \/ Main
    \/ ReadField
    \/ ApplyModifications

Spec == Init /\ [][Next]_vars

\* scanning: images of several fields, default or all-enabled options
NextScan ==
    \/ ConstructDefault
    \/ ConstructEnabled
    \/ ReadBinary
    \/ ApplyModifications

SpecScan == Init /\ [][NextScan]_vars

TypeOK ==
    /\ pc \in {"start", "constructed", "read", "applied"}
    /\ Len(reports) <= MaxCalls

(* ------------------- vocabulary of the properties ---------------------- *)

\* the option key of a rule, spelled out: 'dpf', 'egr', 'scr', 'startstop'
KeyOf(r) ==
    IF r = DPF THEN k_dpf
    ELSE IF r = EGR THEN k_egr
    ELSE IF r = SCR THEN k_scr
    ELSE k_startstop

\* position of a rule in the definition order DPF, EGR, SCR, StartStop
Rank(r) ==
    IF r = DPF THEN 1 ELSE IF r = EGR THEN 2 ELSE IF r = SCR THEN 3 ELSE 4

AllRules == {DPF, EGR, SCR, StartStop}

SigLen(r) == Len(patterns[r].signature)
StockLen(r) == Len(patterns[r].stock)

\* the rule is one the engine evaluates in this run
Evaluated(r) == Get(options, KeyOf(r), FALSE)

\* 0-based offsets at which the rule's signature occurs in buf
SigOffsets(buf, r) ==
    {i \in 0 .. (Len(buf) - SigLen(r)) :
        SubSeq(buf, i + 1, i + SigLen(r)) = patterns[r].signature}

FollowedByStock(buf, r, i) ==
    /\ i + SigLen(r) + StockLen(r) <= Len(buf)
    /\ SubSeq(buf, i + SigLen(r) + 1, i + SigLen(r) + StockLen(r)) = patterns[r].stock

MatchOffsets(buf, r) == {i \in SigOffsets(buf, r) : FollowedByStock(buf, r, i)}

SetMin(S) == CHOOSE x \in S : \A y \in S : x <= y

\* 0-based byte positions of the stock field of rule r at signature offset i
Region(r, i) == (i + SigLen(r)) .. (i + SigLen(r) + StockLen(r) - 1)

Records(changes) == {changes[k] : k \in DOMAIN changes}
RecordsOf(changes, r) == {c \in Records(changes) : c[1] = r}

DigitValue(c) == IF c >= 97 THEN c - 87 ELSE c - 48

RECURSIVE DigitsValue(_)
DigitsValue(ds) ==
    IF ds = <<>> THEN 0
    ELSE 16 * DigitsValue(SubSeq(ds, 1, Len(ds) - 1)) + DigitValue(ds[Len(ds)])

\* the offset a reported "0x.." string stands for
ParseHex(h) == DigitsValue(SubSeq(h, 3, Len(h)))

\* the state right after the first call; file is that call's input
AfterFirst == pc = "applied" /\ Len(reports) = 1

\* the bytes of every stock field of rule r are those of the input
FieldsUntouched(r) ==
    /\ Len(data) = Len(file)
    /\ \A i \in SigOffsets(file, r) : \A q \in Region(r, i) :
          q + 1 <= Len(file) => data[q + 1] = file[q + 1]

\* 0-based positions covered by the stock field of some returned record
Patched(changes) ==
    UNION {Region(c[1], ParseHex(c[2])) : c \in Records(changes)}

(* ------------------------------- C1 ------------------------------------ *)

\* C1 (as stated): for every enabled rule, if the first occurrence of its
\* signature is not followed by its stock bytes, the call emits no record
\* for the rule and leaves the rule's fields as they were, even when a later
\* occurrence of the signature is followed by the stock bytes.
C1_FirstOccurrenceCommitment ==
    AfterFirst =>
      \A r \in AllRules :
        (/\ Evaluated(r)
         /\ SigOffsets(file, r) # {}
         /\ ~FollowedByStock(file, r, SetMin(SigOffsets(file, r))))
        => (RecordsOf(reports[1], r) = {} /\ FieldsUntouched(r))

\* C1 (amended): an enabled rule yields no record and no change exactly when
\* no occurrence of its signature is followed by its stock bytes; otherwise
\* the scan goes past occurrences that fail the stock check and patches the
\* first occurrence that is followed by the stock bytes.
C1_FirstStockMatchWins ==
    AfterFirst =>
      \A r \in AllRules :
        Evaluated(r) =>
          IF MatchOffsets(file, r) = {}
          THEN RecordsOf(reports[1], r) = {} /\ FieldsUntouched(r)
          ELSE LET m == SetMin(MatchOffsets(file, r))
               IN  /\ RecordsOf(reports[1], r) = {<<r, Hex(m)>>}
                   /\ Slice(data, m + SigLen(r), m + SigLen(r) + StockLen(r))
                        = patterns[r].off

\* a later occurrence was patched after the first one failed the stock check
C1_Witness ==
    /\ AfterFirst
    /\ \E r \in AllRules :
         /\ Evaluated(r)
         /\ MatchOffsets(file, r) # {}
         /\ SetMin(SigOffsets(file, r)) < SetMin(MatchOffsets(file, r))
         /\ <<r, Hex(SetMin(MatchOffsets(file, r)))>> \in Records(reports[1])

(* ------------------------------- C2 ------------------------------------ *)

\* C2: for every enabled rule whose first signature occurrence, at offset i,
\* is followed by its stock bytes, after the call the bytes of that field are
\* the rule's off bytes, the record (name, hex(i)) is returned, and every
\* byte outside the fields of the returned records keeps its input value.
C2_PatchPostcondition ==
    AfterFirst =>
      \A r \in AllRules :
        (/\ Evaluated(r)
         /\ SigOffsets(file, r) # {}
         /\ FollowedByStock(file, r, SetMin(SigOffsets(file, r))))
        => LET i == SetMin(SigOffsets(file, r))
           IN  /\ Slice(data, i + SigLen(r), i + SigLen(r) + Len(patterns[r].off))
                    = patterns[r].off
               /\ <<r, Hex(i)>> \in Records(reports[1])
               /\ Len(data) = Len(file)
               /\ \A q \in 0 .. (Len(file) - 1) :
                     q \notin Patched(reports[1]) => data[q + 1] = file[q + 1]

\* the scenario of the specification: DPF_ and its stock bytes at offset 0,
\* unrelated bytes after it, one record ("DPF", "0x0")
C2_Witness ==
    /\ AfterFirst
    /\ Evaluated(DPF)
    /\ Len(file) > 9
    /\ SubSeq(file, 1, 9) = <<68, 80, 70, 95, 1, 1, 1, 0, 0>>
    /\ <<DPF, <<48, 120, 48>>>> \in Records(reports[1])
    /\ SubSeq(data, 5, 9) = <<0, 0, 0, 255, 255>>

(* ------------------------------- C3 ------------------------------------ *)

\* C3 (as stated): a rule whose entry in the mapping the caller supplied is
\* false or absent, the mapping without entries included, gets no record and
\* none of its fields is changed.
C3_DisabledRulesInert ==
    AfterFirst =>
      \A r \in AllRules :
        (arg.given /\ ~Get(arg.map, KeyOf(r), FALSE))
        => (RecordsOf(reports[1], r) = {} /\ FieldsUntouched(r))

(* ------------------------------- C4 ------------------------------------ *)

\* C4 (as stated): the second of two successive calls returns an empty
\* sequence and leaves the buffer as the first call left it.
C4_SecondCallNoOp ==
    [][(AfterFirst /\ pc' = "applied" /\ Len(reports') = 2)
         => (data' = data /\ reports'[2] = <<>>)]_vars

\* C4 (amended): the second call is a no-op when every enabled rule has at
\* most one occurrence of its signature followed by its stock bytes in the
\* input; with more occurrences it patches the next one.
C4_SecondCallNoOpSingleMatch ==
    [][(/\ AfterFirst /\ pc' = "applied" /\ Len(reports') = 2
        /\ \A r \in AllRules :
              Evaluated(r) => Cardinality(MatchOffsets(file, r)) <= 1)
         => (data' = data /\ reports'[2] = <<>>)]_vars

\* a second call that followed a first call which patched something
C4_Witness ==
    /\ pc = "applied"
    /\ Len(reports) = 2
    /\ reports[1] # <<>>
    /\ reports[2] = <<>>
    /\ \A r \in AllRules : Evaluated(r) => Cardinality(MatchOffsets(file, r)) <= 1

(* ------------------------------- C5 ------------------------------------ *)

\* C5: every returned sequence lists its records in the definition order
\* DPF, EGR, SCR, StartStop, each rule at most once, whatever the offsets.
C5_ReportShape ==
    \A k \in DOMAIN reports :
      \A a \in DOMAIN reports[k] : \A b \in DOMAIN reports[k] :
        a < b => Rank(reports[k][a][1]) < Rank(reports[k][b][1])

\* two records whose offsets run against the definition order
C5_Witness ==
    /\ AfterFirst
    /\ Len(reports[1]) >= 2
    /\ ParseHex(reports[1][1][2]) > ParseHex(reports[1][2][2])

(* ------------------------------- C6 ------------------------------------ *)

\* C6: every call completes and keeps the buffer's length; a buffer shorter
\* than a rule's signature gives no record for the rule, and no record is
\* given at a signature with fewer than len(stock) bytes after it.
C6_TotalityAndBounds ==
    /\ pc \in {"read", "applied"} =>
         LET r == apply_modifications(options, data)
         IN  /\ Len(r.data) = Len(data)
             /\ \A q \in DOMAIN r.data : r.data[q] \in 0 .. 255
             /\ Len(r.changes) <= 4
    /\ pc = "applied" =>
         /\ Len(data) = Len(file)
         /\ \A k \in DOMAIN reports : \A c \in Records(reports[k]) :
               /\ Len(file) >= SigLen(c[1])
               /\ ParseHex(c[2]) + SigLen(c[1]) + StockLen(c[1]) <= Len(file)

\* the input ends in an enabled rule's signature with its stock cut short
C6_Witness ==
    /\ AfterFirst
    /\ \E r \in AllRules :
         /\ Evaluated(r)
         /\ \E i \in SigOffsets(file, r) :
              /\ i + SigLen(r) + StockLen(r) = Len(file) + 1
              /\ Slice(file, i + SigLen(r), Len(file))
                   = SubSeq(patterns[r].stock, 1, StockLen(r) - 1)
         /\ RecordsOf(reports[1], r) = {}

(* ------------------------------- C7 ------------------------------------ *)

\* C7 (as stated): a rule is evaluated whenever the supplied mapping has a
\* true entry under a key equal to the rule's name when case is ignored.
C7_CaseInsensitiveLookup ==
    AfterFirst =>
      \A r \in AllRules : \A k \in DOMAIN arg.map :
        (arg.given /\ Lower(k) = Lower(r) /\ arg.map[k])
        => (MatchOffsets(file, r) # {} => RecordsOf(reports[1], r) # {})

\* C7 (amended): a rule is evaluated whenever the supplied mapping has a
\* true entry under the rule's name in lower case ('dpf', 'egr', 'scr',
\* 'startstop'); keys in any other case are not looked up.
C7_LowerCaseKeyLookup ==
    AfterFirst =>
      \A r \in AllRules :
        (arg.given /\ Get(arg.map, KeyOf(r), FALSE))
        => (MatchOffsets(file, r) # {} => RecordsOf(reports[1], r) # {})

\* a caller's mapping with a lower-case key made the engine patch the rule
C7_Witness ==
    /\ AfterFirst
    /\ arg.origin = "caller"
    /\ \E r \in AllRules :
         /\ Get(arg.map, KeyOf(r), FALSE)
         /\ MatchOffsets(file, r) # {}
         /\ RecordsOf(reports[1], r) # {}

(* ------------------------------- C8 ------------------------------------ *)

\* C8 (as stated): with the default options, and with the options of the
\* entry point when all four prompts are answered 'y', every rule whose
\* signature and stock bytes are in the buffer gets a record.
C8_EverySwitchReachesItsRule ==
    AfterFirst =>
      ((arg.origin = "default"
        \/ (arg.origin = "main" /\ \A k \in DOMAIN arg.map : arg.map[k]))
       => \A r \in AllRules :
             MatchOffsets(file, r) # {} => RecordsOf(reports[1], r) # {})

(* ------------------------------- C9 ------------------------------------ *)

\* C9: every position at which the buffer differs from the input lies in
\* the stock field of a returned record, and a rule none of whose signature
\* occurrences is followed by its stock bytes yields no record.
C9_Frame ==
    AfterFirst =>
      /\ Len(data) = Len(file)
      /\ \A q \in 0 .. (Len(file) - 1) :
            data[q + 1] # file[q + 1] => q \in Patched(reports[1])
      /\ \A r \in AllRules :
            MatchOffsets(file, r) = {} => RecordsOf(reports[1], r) = {}

\* a call that patched one rule and left a mismatching field of another alone
C9_Witness ==
    /\ AfterFirst
    /\ reports[1] # <<>>
    /\ data # file
    /\ \E r \in AllRules :
         /\ Evaluated(r)
         /\ SigOffsets(file, r) # {}
         /\ MatchOffsets(file, r) = {}

(* ------------------------------- C10 ----------------------------------- *)

\* the 24 orders in which the four rules can be evaluated
Orders ==
    {o \in [1 .. 4 -> AllRules] : \A a \in 1 .. 4 : \A b \in 1 .. 4 : a # b => o[a] # o[b]}

\* C10: the fields of two returned records never share a byte, a call
\* neither creates nor removes a match of a rule it did not patch, and every
\* order of evaluation gives the same buffer and the same set of records.
C10_RuleIndependence ==
    AfterFirst =>
      /\ \A c \in Records(reports[1]) : \A e \in Records(reports[1]) :
            c # e => Region(c[1], ParseHex(c[2])) \cap Region(e[1], ParseHex(e[2])) = {}
      /\ \A r \in AllRules :
            MatchOffsets(data, r) =
              MatchOffsets(file, r) \ {ParseHex(c[2]) : c \in RecordsOf(reports[1], r)}
      /\ \A o \in Orders :
            LET res == ApplyOrder(o, options, [data |-> file, changes |-> <<>>])
            IN  /\ res.data = data
                /\ Records(res.changes) = Records(reports[1])

\* two different rules were patched in one call
C10_Witness ==
    /\ AfterFirst
    /\ \E c \in Records(reports[1]) : \E e \in Records(reports[1]) : c[1] # e[1]
====
